---- MODULE Spec2Model ----
(***************************************************************************)
(* Model of the RedSaver REST server (src/index.js).                       *)
(*                                                                         *)
(* Every request is a short chain of asynchronous steps: the guards        *)
(* verifyFBToken and verifyAdmin, then the route handler.  Each `await`    *)
(* of the source is a point where the steps of other requests may run, so  *)
(* every action below is one such step and the steps of concurrent         *)
(* requests interleave freely.  The document store, the identity provider  *)
(* and the payment processor are external: a store operation is atomic     *)
(* and may fail, the provider may reject any token, the processor may      *)
(* fail.                                                                   *)
(***************************************************************************)
EXTENDS Integers, Sequences, FiniteSets, TLC

VARIABLES
  firebaseInitialized, \* index.js:19-31, fixed at startup
  usersColl,           \* the users collection: email -> document
  donationsColl,       \* the donations collection: place -> document
  fundsColl,           \* the funds collection: its documents in order
  inserted,            \* number of store keys handed out by insertOne
  now,                 \* the clock read by new Date()
  reqs,                \* the requests in flight, one per connection slot
  accepted             \* number of requests accepted so far

vars == <<firebaseInitialized, usersColl, donationsColl, fundsColl, inserted, now, reqs, accepted>>

(* ------------------------------ bounds -------------------------------- *)
MaxRequests == 2
MaxUserRequests == 3
MaxDonationRequests == 3
MaxPayRequests == 3
MaxTime == 1
MaxDonations == 2
MaxFunds == 1

\* two requests can be in flight at a time
Slots == {1, 2}
Emails == {"a@x", "b@x"}

(* --------------------------- JavaScript values ------------------------ *)
\* undefined / a field that is not there
Absent == "absent"

\* !v for a string-valued field: undefined and "" are falsy
Falsy(v) == v = Absent \/ v = ""

\* !v for a number-valued field, held as <<>> (not sent) or <<n>>
FalsyNum(v) == v = <<>> \/ v[1] = 0

\* a || b || c
Or3(a, b, c) == IF ~Falsy(a) THEN a ELSE IF ~Falsy(b) THEN b ELSE c

(* ------------------------------ documents ----------------------------- *)
\* findOne() result null, and the place of an email that has no document.
\* name stands for the profile fields (name, avatar, bloodGroup, division,
\* district, upazila), which the handlers all treat alike; updatedAt is
\* written and never read, and is left out.
NoUser == [exists |-> FALSE, role |-> Absent, status |-> Absent, name |-> Absent,
           createdAt |-> <<>>]

UserDoc(role, status, name, c) ==
  [exists |-> TRUE, role |-> role, status |-> status, name |-> name, createdAt |-> c]

\* an empty place of the donations collection; id is the document's _id
NoDonation == [exists |-> FALSE, id |-> 0, status |-> Absent, note |-> Absent,
               createdAt |-> <<>>]

\* a request body: the fields the handlers read; Absent (<<>> for a number)
\* when not sent
NoBody == [email |-> Absent, name |-> Absent, role |-> Absent, status |-> Absent,
           note |-> Absent, createdAt |-> <<>>, amount |-> <<>>,
           donorName |-> Absent, donorEmail |-> Absent]

NoResp == [status |-> 0, message |-> "", list |-> <<>>, secret |-> "", total |-> 0]

\* the document a handler has built before its store call
NoData == [role |-> Absent, status |-> Absent, name |-> Absent, note |-> Absent,
           createdAt |-> <<>>, setsRole |-> FALSE]

\* req and res of one request.  stripe is the list of calls the request has
\* made to the payment processor.
Idle == [route |-> "none", header |-> <<>>, email |-> Absent, id |-> <<>>, query |-> Absent,
         body |-> NoBody, pc |-> "idle", decoded_email |-> Absent, data |-> NoData,
         stripe |-> <<>>, resp |-> NoResp, error |-> ""]

(* -------------------------------- inputs ------------------------------ *)
\* An Authorization header as its words (the pieces of split(" ")); <<>> when
\* the header is not sent.
NoHeader == <<>>
Headers == { NoHeader, <<"Basic", "tokA">>, <<"Bearer", "bad">>,
             <<"Bearer", "tokA">>, <<"Bearer", "tokB">> }
GoodHeaders == { NoHeader, <<"Bearer", "tokA">>, <<"Bearer", "tokB">> }
IssuedTokens == { <<"Bearer", "tokA">>, <<"Bearer", "tokB">> }

\* the identity provider: the email a token was issued for
TokenEmail(token) ==
  CASE token = "tokA" -> "a@x"
    [] token = "tokB" -> "b@x"
    [] OTHER -> Absent

AdminRoutes == {"GetUsers", "BlockUser", "UnblockUser", "SetRole",
                "DeleteDonation", "GetFundsTotal"}
IdentityRoutes == AdminRoutes \cup {"PutUser", "PostDonation", "GetDonations",
                  "PatchDonation", "GetFunds", "PostFunds", "CreatePaymentIntent"}

\* A path parameter :id as its characters.  A store key is IdLen hexadecimal
\* digits (24 in the store's driver, 2 here).
IdLen == 2
HexDigits == <<"0", "1", "2", "3", "4", "5", "6", "7", "8", "9",
               "a", "b", "c", "d", "e", "f">>
IdStrings == { <<"0", "1">>, <<"0", "2">>, <<"z", "z">> }
Secrets == {"cs_1", "cs_2"}

\* email and id are the path parameters :email and :id
Input(route, header, email, id, query, body) ==
  [route |-> route, header |-> header, email |-> email, id |-> id, query |-> query,
   body |-> body]

\* the requests drawn for each route
UserInputs(headers) ==
       { Input("PostUsers", NoHeader, Absent, <<>>, Absent, [NoBody EXCEPT !.email = e, !.name = n]) :
           e \in Emails \cup {Absent}, n \in {Absent, "n1"} }
  \cup { Input("PutUser", h, e, <<>>, Absent, [NoBody EXCEPT !.role = r, !.status = st]) :
           h \in headers, e \in Emails, r \in {Absent, "admin"},
           st \in {Absent, "active", "blocked"} }
  \cup { Input(route, h, e, <<>>, Absent, NoBody) :
           route \in {"BlockUser", "UnblockUser"}, h \in headers, e \in Emails }
  \cup { Input("SetRole", h, e, <<>>, Absent, [NoBody EXCEPT !.role = r]) :
           h \in headers, e \in Emails, r \in {Absent, "admin", "donor"} }
  \cup { Input("GetUsers", h, Absent, <<>>, Absent, NoBody) : h \in headers }

DonationInputs(headers) ==
       { Input("PostDonation", h, Absent, <<>>, Absent,
               [NoBody EXCEPT !.status = st, !.note = "n", !.createdAt = c]) :
           h \in headers, st \in {Absent, "pending"}, c \in {<<>>, <<7>>} }
  \cup { Input("GetDonations", h, Absent, <<>>, q, NoBody) :
           h \in headers, q \in {Absent, "pending"} }
  \cup { Input("PatchDonation", h, Absent, id, Absent, [NoBody EXCEPT !.status = "done"]) :
           h \in headers, id \in IdStrings }
  \cup { Input("PatchDonation", h, Absent, <<"0", "1">>, Absent, [NoBody EXCEPT !.status = st]) :
           h \in headers, st \in {Absent, ""} }
  \cup { Input("DeleteDonation", h, Absent, id, Absent, NoBody) :
           h \in headers, id \in IdStrings }

FundInputs(headers) ==
       { Input("PostFunds", h, Absent, <<>>, Absent,
               [NoBody EXCEPT !.amount = a, !.donorName = n, !.donorEmail = "d@x"]) :
           h \in headers, a \in {<<>>, <<100>>}, n \in {Absent, "dn"} }
  \cup { Input(route, h, Absent, <<>>, Absent, NoBody) :
           route \in {"GetFunds", "GetFundsTotal"}, h \in headers }

PayInputs(headers) ==
  { Input("CreatePaymentIntent", h, Absent, <<>>, Absent, [NoBody EXCEPT !.amount = a]) :
      h \in headers, a \in {<<>>, <<0>>, <<50>>} }

NewRequest(in) ==
  [Idle EXCEPT !.route = in.route, !.header = in.header, !.email = in.email, !.id = in.id,
               !.query = in.query, !.body = in.body,
               !.pc = IF in.route \in IdentityRoutes THEN "verifyFBToken" ELSE "handler"]

(* ------------------------------ responses ----------------------------- *)
\* A finished request keeps its route, its query string, its response and its
\* processor calls: nothing else of it is read again.
Finished(q, resp) ==
  [Idle EXCEPT !.route = q.route, !.query = q.query, !.pc = "done", !.resp = resp,
               !.stripe = q.stripe]

\* res.status(code).json({ message })
Respond(q, code, message) ==
  Finished(q, [NoResp EXCEPT !.status = code, !.message = message])

\* res.json({ success: true, ... })
RespondOk(q, message) == Respond(q, 200, message)

\* res.json(array)
RespondList(q, list) ==
  Finished(q, [NoResp EXCEPT !.status = 200, !.message = "list", !.list = list])

\* An async guard or handler that throws: its promise rejects with the error,
\* and it ends without having sent anything.
Throw(q, error) ==
  [Idle EXCEPT !.route = q.route, !.query = q.query, !.pc = "rejected",
               !.stripe = q.stripe, !.error = error]

\* a store operation fails
Reject(q) == Throw(q, "MongoError")

(* --------------------------- identity verifier ------------------------ *)
\* req.headers.authorization || ""
AuthHeader(header) == IF header = NoHeader THEN <<"">> ELSE header

\* authHeader.startsWith("Bearer ")
StartsWithBearer(h) == Len(h) >= 2 /\ h[1] = "Bearer"

\* authHeader.split(" ")[1]
TokenOf(h) == h[2]

\* next() of verifyFBToken: the route's next guard, or its handler
AfterIdentity(route) == IF route \in AdminRoutes THEN "verifyAdmin" ELSE "handler"

\* a slip: the header is looked at before the provider's configuration
FBTokenStepHeaderFirst(q, initialized, verified) ==
  IF ~StartsWithBearer(AuthHeader(q.header)) THEN Respond(q, 401, "Unauthorized")
  ELSE IF ~initialized THEN Respond(q, 500, "Firebase not configured")
  ELSE IF verified
       THEN [q EXCEPT !.decoded_email = TokenEmail(TokenOf(AuthHeader(q.header))),
                      !.pc = AfterIdentity(q.route)]
       ELSE Respond(q, 401, "Invalid token")

\* verifyFBToken; verified says whether verifyIdToken resolved
FBTokenStep(q, initialized, verified) ==
  IF ~initialized THEN Respond(q, 500, "Firebase not configured")
  ELSE IF ~StartsWithBearer(AuthHeader(q.header)) THEN Respond(q, 401, "Unauthorized")
  ELSE IF verified
       THEN [q EXCEPT !.decoded_email = TokenEmail(TokenOf(AuthHeader(q.header))),
                      !.pc = AfterIdentity(q.route)]
       ELSE Respond(q, 401, "Invalid token")

\* the provider can reject any token, and accepts only the ones it issued
VerifyFBToken(s) ==
  /\ reqs[s].pc = "verifyFBToken"
  /\ \E verified \in BOOLEAN :
       /\ verified =>
            /\ StartsWithBearer(AuthHeader(reqs[s].header))
            /\ TokenEmail(TokenOf(AuthHeader(reqs[s].header))) # Absent
       /\ reqs' = [reqs EXCEPT ![s] = FBTokenStep(reqs[s], firebaseInitialized, verified)]
  /\ UNCHANGED <<firebaseInitialized, usersColl, donationsColl, fundsColl, inserted, now, accepted>>

(* --------------------------- authorization guard ---------------------- *)
\* !user || user.role !== "admin"
NotAdmin(user) == ~user.exists \/ user.role # "admin"

\* a slip: user && user.role !== "admin", which lets a caller with no record in
AdminStepMissingUserPasses(q, user) ==
  IF user.exists /\ user.role # "admin" THEN Respond(q, 403, "Admin only access")
  ELSE [q EXCEPT !.pc = "handler"]

AdminStep(q, user) ==
  IF NotAdmin(user) THEN Respond(q, 403, "Admin only access")
  ELSE [q EXCEPT !.pc = "handler"]

\* findOne({ email }), which can fail, then the role check
VerifyAdmin(s) ==
  /\ reqs[s].pc = "verifyAdmin"
  /\ \/ reqs' = [reqs EXCEPT ![s] = AdminStep(reqs[s], usersColl[reqs[s].decoded_email])]
     \/ reqs' = [reqs EXCEPT ![s] = Reject(reqs[s])]
  /\ UNCHANGED <<firebaseInitialized, usersColl, donationsColl, fundsColl, inserted, now, accepted>>

(* ------------------------------ user routes --------------------------- *)
\* existingUser?.field
FieldOf(existing, value) == IF existing.exists THEN value ELSE Absent

\* POST /users, lines 103-118: the $set document built from the body and the
\* findOne result
PostUsersData(body, existingUser, date) ==
  [NoData EXCEPT
     !.name = Or3(body.name, FieldOf(existingUser, existingUser.name), ""),
     !.status = Or3(FieldOf(existingUser, existingUser.status), "active", "active"),
     !.setsRole = ~existingUser.exists,
     !.role = IF ~existingUser.exists THEN "donor" ELSE Absent,
     !.createdAt = IF ~existingUser.exists THEN <<date>> ELSE <<>>]

\* updateOne({ email }, { $set: data }, { upsert: true }) on the document of
\* that email
UpsertUser(doc, data) ==
  [exists |-> TRUE,
   name |-> data.name, status |-> data.status,
   role |-> IF data.setsRole THEN data.role ELSE doc.role,
   createdAt |-> IF data.setsRole THEN data.createdAt ELSE doc.createdAt]

\* first half of POST /users: the email check, findOne, and the $set document
PostUsersFind(s) ==
  /\ reqs[s].pc = "handler" /\ reqs[s].route = "PostUsers"
  /\ IF Falsy(reqs[s].body.email)
     THEN reqs' = [reqs EXCEPT ![s] = Respond(reqs[s], 400, "Email required")]
     ELSE \/ reqs' = [reqs EXCEPT ![s] =
                        [reqs[s] EXCEPT !.pc = "update",
                           !.data = PostUsersData(reqs[s].body, usersColl[reqs[s].body.email], now)]]
          \/ reqs' = [reqs EXCEPT ![s] = Reject(reqs[s])]
  /\ UNCHANGED <<firebaseInitialized, usersColl, donationsColl, fundsColl, inserted, now, accepted>>

\* second half of POST /users: the upsert and the response
PostUsersUpdate(s) ==
  /\ reqs[s].pc = "update" /\ reqs[s].route = "PostUsers"
  /\ \/ /\ usersColl' = [usersColl EXCEPT ![reqs[s].body.email] = UpsertUser(@, reqs[s].data)]
        /\ reqs' = [reqs EXCEPT ![s] = RespondOk(reqs[s], "success")]
     \/ /\ reqs' = [reqs EXCEPT ![s] = Reject(reqs[s])]
        /\ UNCHANGED usersColl
  /\ UNCHANGED <<firebaseInitialized, donationsColl, fundsColl, inserted, now, accepted>>

\* GET /users: find().toArray(), in the store's order
EmailOrder == <<"a@x", "b@x">>

RECURSIVE AllUsers(_, _)
AllUsers(coll, i) ==
  IF i > Len(EmailOrder) THEN <<>>
  ELSE (IF coll[EmailOrder[i]].exists THEN <<coll[EmailOrder[i]]>> ELSE <<>>)
       \o AllUsers(coll, i + 1)

GetUsers(s) ==
  /\ reqs[s].pc = "handler" /\ reqs[s].route = "GetUsers"
  /\ \/ reqs' = [reqs EXCEPT ![s] = RespondList(reqs[s], AllUsers(usersColl, 1))]
     \/ reqs' = [reqs EXCEPT ![s] = Reject(reqs[s])]
  /\ UNCHANGED <<firebaseInitialized, usersColl, donationsColl, fundsColl, inserted, now, accepted>>

\* PUT /users/:email, lines 136-137: { ...req.body, updatedAt } with role deleted
PutUpdateData(body) ==
  [NoData EXCEPT !.name = body.name, !.status = body.status, !.role = Absent]

\* updateOne({ email }, { $set: updateData }): the fields present are set, and
\* a missing document stays missing
SetFields(doc, data) ==
  IF ~doc.exists THEN doc
  ELSE [doc EXCEPT !.name = IF data.name = Absent THEN @ ELSE data.name,
                   !.status = IF data.status = Absent THEN @ ELSE data.status,
                   !.role = IF data.role = Absent THEN @ ELSE data.role]

PutUser(s) ==
  /\ reqs[s].pc = "handler" /\ reqs[s].route = "PutUser"
  /\ \/ /\ usersColl' = [usersColl EXCEPT ![reqs[s].email] = SetFields(@, PutUpdateData(reqs[s].body))]
        /\ reqs' = [reqs EXCEPT ![s] = RespondOk(reqs[s], "success")]
     \/ /\ reqs' = [reqs EXCEPT ![s] = Reject(reqs[s])]
        /\ UNCHANGED usersColl
  /\ UNCHANGED <<firebaseInitialized, donationsColl, fundsColl, inserted, now, accepted>>

\* updateOne({ email }, { $set: { status } })
SetStatus(doc, status) == IF doc.exists THEN [doc EXCEPT !.status = status] ELSE doc

\* updateOne({ email }, { $set: { role } }); a role that was not sent is
\* stored as null
SetRoleField(doc, role) == IF doc.exists THEN [doc EXCEPT !.role = role] ELSE doc

BlockUser(s) ==
  /\ reqs[s].pc = "handler" /\ reqs[s].route = "BlockUser"
  /\ \/ /\ usersColl' = [usersColl EXCEPT ![reqs[s].email] = SetStatus(@, "blocked")]
        /\ reqs' = [reqs EXCEPT ![s] = RespondOk(reqs[s], "User blocked")]
     \/ /\ reqs' = [reqs EXCEPT ![s] = Reject(reqs[s])]
        /\ UNCHANGED usersColl
  /\ UNCHANGED <<firebaseInitialized, donationsColl, fundsColl, inserted, now, accepted>>

UnblockUser(s) ==
  /\ reqs[s].pc = "handler" /\ reqs[s].route = "UnblockUser"
  /\ \/ /\ usersColl' = [usersColl EXCEPT ![reqs[s].email] = SetStatus(@, "active")]
        /\ reqs' = [reqs EXCEPT ![s] = RespondOk(reqs[s], "User unblocked")]
     \/ /\ reqs' = [reqs EXCEPT ![s] = Reject(reqs[s])]
        /\ UNCHANGED usersColl
  /\ UNCHANGED <<firebaseInitialized, donationsColl, fundsColl, inserted, now, accepted>>

SetRole(s) ==
  /\ reqs[s].pc = "handler" /\ reqs[s].route = "SetRole"
  /\ \/ /\ usersColl' = [usersColl EXCEPT ![reqs[s].email] = SetRoleField(@, reqs[s].body.role)]
        /\ reqs' = [reqs EXCEPT ![s] = RespondOk(reqs[s], "User role updated")]
     \/ /\ reqs' = [reqs EXCEPT ![s] = Reject(reqs[s])]
        /\ UNCHANGED usersColl
  /\ UNCHANGED <<firebaseInitialized, donationsColl, fundsColl, inserted, now, accepted>>

(* ---------------------------- donation routes ------------------------ *)
IsHexDigit(c) == \E i \in 1..Len(HexDigits) : HexDigits[i] = c

HexVal(c) == (CHOOSE i \in 1..Len(HexDigits) : HexDigits[i] = c) - 1

\* new ObjectId(id) throws unless id is IdLen hexadecimal digits
ValidObjectId(id) == Len(id) = IdLen /\ \A i \in 1..Len(id) : IsHexDigit(id[i])

\* the key new ObjectId(id) denotes
RECURSIVE ObjectId(_)
ObjectId(id) ==
  IF id = <<>> THEN 0
  ELSE 16 * ObjectId(SubSeq(id, 1, Len(id) - 1)) + HexVal(id[Len(id)])

\* a slip: { createdAt: new Date(), ...req.body }, where the caller's createdAt
\* wins
DonationDataBodyWins(body, date) ==
  [NoData EXCEPT !.status = body.status, !.note = body.note,
                 !.createdAt = IF body.createdAt = <<>> THEN <<date>> ELSE body.createdAt]

\* POST /donations, line 199: { ...req.body, createdAt: new Date() }
DonationData(body, date) ==
  [NoData EXCEPT !.status = body.status, !.note = body.note, !.createdAt = <<date>>]

\* the document insertOne(data) stores under the key it hands out
InsertedDonation(key, data) ==
  [exists |-> TRUE, id |-> key, status |-> data.status, note |-> data.note,
   createdAt |-> data.createdAt]

\* first half of POST /donations: the document is built, the clock read
PostDonationBuild(s) ==
  /\ reqs[s].pc = "handler" /\ reqs[s].route = "PostDonation"
  /\ reqs' = [reqs EXCEPT ![s] =
                [reqs[s] EXCEPT !.pc = "insert", !.data = DonationData(reqs[s].body, now)]]
  /\ UNCHANGED <<firebaseInitialized, usersColl, donationsColl, fundsColl, inserted, now, accepted>>

\* second half of POST /donations: insertOne and the response
PostDonationInsert(s) ==
  /\ reqs[s].pc = "insert" /\ reqs[s].route = "PostDonation"
  /\ \/ /\ inserted < MaxDonations
        /\ donationsColl' = [donationsColl EXCEPT ![inserted + 1] =
                           InsertedDonation(inserted + 1, reqs[s].data)]
        /\ inserted' = inserted + 1
        /\ reqs' = [reqs EXCEPT ![s] = RespondOk(reqs[s], "success")]
     \/ /\ reqs' = [reqs EXCEPT ![s] = Reject(reqs[s])]
        /\ UNCHANGED <<donationsColl, inserted>>
  /\ UNCHANGED <<firebaseInitialized, usersColl, fundsColl, now, accepted>>

\* find({}).toArray(): the documents in the store's order
RECURSIVE FindAll(_, _)
FindAll(coll, i) ==
  IF i > MaxDonations THEN <<>>
  ELSE (IF coll[i].exists THEN <<coll[i]>> ELSE <<>>) \o FindAll(coll, i + 1)

\* sort({ createdAt: -1 }): d goes before the first document older than it
RECURSIVE InsertDesc(_, _)
InsertDesc(d, sorted) ==
  IF sorted = <<>> THEN <<d>>
  ELSE IF Head(sorted).createdAt[1] < d.createdAt[1] THEN <<d>> \o sorted
  ELSE <<Head(sorted)>> \o InsertDesc(d, Tail(sorted))

RECURSIVE SortDesc(_)
SortDesc(docs) ==
  IF docs = <<>> THEN <<>>
  ELSE InsertDesc(docs[Len(docs)], SortDesc(SubSeq(docs, 1, Len(docs) - 1)))

\* a slip: the sort is left out
ListDonationsUnsorted(coll, query) == FindAll(coll, 1)

\* GET /donations, line 206: the query string is not read
ListDonations(coll, query) == SortDesc(FindAll(coll, 1))

GetDonations(s) ==
  /\ reqs[s].pc = "handler" /\ reqs[s].route = "GetDonations"
  /\ \/ reqs' = [reqs EXCEPT ![s] =
                   RespondList(reqs[s], ListDonations(donationsColl, reqs[s].query))]
     \/ reqs' = [reqs EXCEPT ![s] = Respond(reqs[s], 500, "Failed to fetch donations")]
  /\ UNCHANGED <<firebaseInitialized, usersColl, donationsColl, fundsColl, inserted, now, accepted>>

\* the documents a filter { _id: key } matches
Matches(coll, key) == {i \in 1..MaxDonations : coll[i].exists /\ coll[i].id = key}

\* updateOne({ _id }, { $set: { status } })
UpdateStatus(coll, key, status) ==
  [i \in 1..MaxDonations |->
     IF i \in Matches(coll, key) THEN [coll[i] EXCEPT !.status = status] ELSE coll[i]]

\* deleteOne({ _id })
DeleteById(coll, key) ==
  [i \in 1..MaxDonations |-> IF i \in Matches(coll, key) THEN NoDonation ELSE coll[i]]

\* PATCH /donations/:id, lines 215-221
PatchDonation(s) ==
  /\ reqs[s].pc = "handler" /\ reqs[s].route = "PatchDonation"
  /\ IF Falsy(reqs[s].body.status)
     THEN /\ reqs' = [reqs EXCEPT ![s] = Respond(reqs[s], 400, "Status required")]
          /\ UNCHANGED donationsColl
     ELSE IF ~ValidObjectId(reqs[s].id)
     THEN /\ reqs' = [reqs EXCEPT ![s] = Throw(reqs[s], "BSONError")]
          /\ UNCHANGED donationsColl
     ELSE \/ /\ Matches(donationsColl, ObjectId(reqs[s].id)) = {}
             /\ reqs' = [reqs EXCEPT ![s] = Respond(reqs[s], 404, "Donation not found")]
             /\ UNCHANGED donationsColl
          \/ /\ Matches(donationsColl, ObjectId(reqs[s].id)) # {}
             /\ donationsColl' = UpdateStatus(donationsColl, ObjectId(reqs[s].id),
                                          reqs[s].body.status)
             /\ reqs' = [reqs EXCEPT ![s] = RespondOk(reqs[s], "Donation status updated")]
          \/ /\ reqs' = [reqs EXCEPT ![s] = Reject(reqs[s])]
             /\ UNCHANGED donationsColl
  /\ UNCHANGED <<firebaseInitialized, usersColl, fundsColl, inserted, now, accepted>>

\* DELETE /donations/:id, lines 225-227
DeleteDonation(s) ==
  /\ reqs[s].pc = "handler" /\ reqs[s].route = "DeleteDonation"
  /\ IF ~ValidObjectId(reqs[s].id)
     THEN /\ reqs' = [reqs EXCEPT ![s] = Throw(reqs[s], "BSONError")]
          /\ UNCHANGED donationsColl
     ELSE \/ /\ Matches(donationsColl, ObjectId(reqs[s].id)) = {}
             /\ reqs' = [reqs EXCEPT ![s] = Respond(reqs[s], 404, "Donation not found")]
             /\ UNCHANGED donationsColl
          \/ /\ Matches(donationsColl, ObjectId(reqs[s].id)) # {}
             /\ donationsColl' = DeleteById(donationsColl, ObjectId(reqs[s].id))
             /\ reqs' = [reqs EXCEPT ![s] = RespondOk(reqs[s], "Donation deleted")]
          \/ /\ reqs' = [reqs EXCEPT ![s] = Reject(reqs[s])]
             /\ UNCHANGED donationsColl
  /\ UNCHANGED <<firebaseInitialized, usersColl, fundsColl, inserted, now, accepted>>

(* ------------------------------ fund routes --------------------------- *)
\* sort({ date: -1 }) of the funds, newest first
RECURSIVE InsertFund(_, _)
InsertFund(f, sorted) ==
  IF sorted = <<>> THEN <<f>>
  ELSE IF Head(sorted).date < f.date THEN <<f>> \o sorted
  ELSE <<Head(sorted)>> \o InsertFund(f, Tail(sorted))

RECURSIVE SortFunds(_)
SortFunds(fs) ==
  IF fs = <<>> THEN <<>>
  ELSE InsertFund(fs[Len(fs)], SortFunds(SubSeq(fs, 1, Len(fs) - 1)))

\* GET /funds
GetFunds(s) ==
  /\ reqs[s].pc = "handler" /\ reqs[s].route = "GetFunds"
  /\ \/ reqs' = [reqs EXCEPT ![s] = RespondList(reqs[s], SortFunds(fundsColl))]
     \/ reqs' = [reqs EXCEPT ![s] = Reject(reqs[s])]
  /\ UNCHANGED <<firebaseInitialized, usersColl, donationsColl, fundsColl, inserted, now, accepted>>

\* $group { total: { $sum: "$amount" } }, and result[0]?.total || 0
RECURSIVE TotalOf(_)
TotalOf(fs) == IF fs = <<>> THEN 0 ELSE Head(fs).amount + TotalOf(Tail(fs))

\* GET /funds/total
GetFundsTotal(s) ==
  /\ reqs[s].pc = "handler" /\ reqs[s].route = "GetFundsTotal"
  /\ \/ reqs' = [reqs EXCEPT ![s] =
                   Finished(reqs[s], [NoResp EXCEPT !.status = 200, !.message = "total",
                                                    !.total = TotalOf(fundsColl)])]
     \/ reqs' = [reqs EXCEPT ![s] = Reject(reqs[s])]
  /\ UNCHANGED <<firebaseInitialized, usersColl, donationsColl, fundsColl, inserted, now, accepted>>

\* POST /funds, line 242
MissingFundFields(body) ==
  FalsyNum(body.amount) \/ Falsy(body.donorName) \/ Falsy(body.donorEmail)

\* POST /funds, lines 241-246
PostFunds(s) ==
  /\ reqs[s].pc = "handler" /\ reqs[s].route = "PostFunds"
  /\ IF MissingFundFields(reqs[s].body)
     THEN /\ reqs' = [reqs EXCEPT ![s] = Respond(reqs[s], 400, "Missing required fields")]
          /\ UNCHANGED fundsColl
     ELSE \/ /\ Len(fundsColl) < MaxFunds
             /\ fundsColl' = Append(fundsColl, [amount |-> reqs[s].body.amount[1],
                                        donorName |-> reqs[s].body.donorName,
                                        donorEmail |-> reqs[s].body.donorEmail,
                                        date |-> now])
             /\ reqs' = [reqs EXCEPT ![s] = RespondOk(reqs[s], "success")]
          \/ /\ reqs' = [reqs EXCEPT ![s] = Reject(reqs[s])]
             /\ UNCHANGED fundsColl
  /\ UNCHANGED <<firebaseInitialized, usersColl, donationsColl, inserted, now, accepted>>

(* ----------------------------- payment bridge ------------------------- *)
\* a slip: the amount is passed on in major units
IntentArgsMajorUnits(amount) == [amount |-> amount, currency |-> "bdt"]

\* the argument of stripe.paymentIntents.create, lines 290-294
IntentArgs(amount) == [amount |-> amount * 100, currency |-> "bdt"]

\* res.json({ clientSecret: paymentIntent.client_secret })
RespondSecret(q, secret) ==
  Finished(q, [NoResp EXCEPT !.status = 200, !.message = "clientSecret", !.secret = secret])

\* the processor is called with args and answers reply: a client secret, or
\* "error" when the call fails
Called(q, args, reply) ==
  [q EXCEPT !.stripe = Append(@, [args |-> args, reply |-> reply])]

\* POST /create-payment-intent, lines 286-299
CreatePaymentIntent(s) ==
  /\ reqs[s].pc = "handler" /\ reqs[s].route = "CreatePaymentIntent"
  /\ IF FalsyNum(reqs[s].body.amount)
     THEN reqs' = [reqs EXCEPT ![s] = Respond(reqs[s], 400, "Amount required")]
     ELSE \/ \E secret \in Secrets :
               reqs' = [reqs EXCEPT ![s] =
                          RespondSecret(Called(reqs[s], IntentArgs(reqs[s].body.amount[1]),
                                               secret),
                                        secret)]
          \/ reqs' = [reqs EXCEPT ![s] =
                        Respond(Called(reqs[s], IntentArgs(reqs[s].body.amount[1]), "error"),
                                500, "Stripe payment failed")]
  /\ UNCHANGED <<firebaseInitialized, usersColl, donationsColl, fundsColl, inserted, now, accepted>>

(* ------------------------------- the clock ---------------------------- *)
Tick ==
  /\ now < MaxTime
  /\ now' = now + 1
  /\ UNCHANGED <<firebaseInitialized, usersColl, donationsColl, fundsColl, inserted, reqs, accepted>>

(* ----------------------------- accepting ------------------------------ *)
\* a slot is free before its first request and after its request has ended
Free(q) == q.pc \in {"idle", "done", "rejected"}

\* The server takes a request from `inputs` into the first free slot (which
\* slot it is makes no difference to any handler).
Accept(s, inputs, max) ==
  /\ Free(reqs[s])
  /\ \A t \in Slots : t < s => ~Free(reqs[t])
  /\ accepted < max
  /\ \E in \in inputs : reqs' = [reqs EXCEPT ![s] = NewRequest(in)]
  /\ accepted' = accepted + 1
  /\ UNCHANGED <<firebaseInitialized, usersColl, donationsColl, fundsColl, inserted, now>>

(* ------------------------------- startup ------------------------------ *)
\* the store outlives the server: the collections found at startup
SeedUsers ==
  { [e \in Emails |-> IF e = "a@x" THEN UserDoc("admin", "active", "n1", <<0>>) ELSE NoUser],
    [e \in Emails |-> IF e = "a@x" THEN UserDoc("admin", "active", "n1", <<0>>)
                                   ELSE UserDoc("donor", "blocked", "n1", <<0>>)] }

Init ==
  /\ firebaseInitialized \in BOOLEAN
  /\ usersColl \in SeedUsers
  /\ donationsColl = [i \in 1..MaxDonations |-> NoDonation]
  /\ fundsColl = <<>>
  /\ inserted = 0
  /\ now = 0
  /\ reqs = [s \in Slots |-> Idle]
  /\ accepted = 0

\* the requests of the whole server: every route, every kind of header, one
\* or two bodies each
AllInputs ==
       { in \in UserInputs(Headers) :
           /\ in.body.name = Absent
           /\ in.route = "PostUsers" => in.body.email = "b@x"
           /\ in.route = "PutUser" => in.body.status = "active" /\ in.body.role = Absent
           /\ in.route = "SetRole" => in.body.role = "donor"
           /\ in.email \in {Absent, "a@x"} }
  \cup { in \in DonationInputs(Headers) :
           /\ in.route = "PostDonation" => in.body.status = Absent /\ in.body.createdAt = <<>>
           /\ in.route = "PatchDonation" => in.body.status = "done"
           /\ in.route \in {"PatchDonation", "DeleteDonation"} => in.id = <<"0", "1">>
           /\ in.query = Absent }
  \cup { in \in FundInputs(Headers) : in.route = "PostFunds" => ~MissingFundFields(in.body) }
  \cup { in \in PayInputs(Headers) : in.body.amount = <<50>> }

AcceptAny(s) == Accept(s, AllInputs, MaxRequests)

Next ==
  \/ Tick
  \/ \E s \in Slots :
       \/ AcceptAny(s)
       \/ VerifyFBToken(s)
       \/ VerifyAdmin(s)
       \/ PostUsersFind(s)
       \/ PostUsersUpdate(s)
       \/ GetUsers(s)
       \/ PutUser(s)
       \/ BlockUser(s)
       \/ UnblockUser(s)
       \/ SetRole(s)
       \/ PostDonationBuild(s)
       \/ PostDonationInsert(s)
       \/ GetDonations(s)
       \/ PatchDonation(s)
       \/ DeleteDonation(s)
       \/ GetFunds(s)
       \/ GetFundsTotal(s)
       \/ PostFunds(s)
       \/ CreatePaymentIntent(s)

Spec == Init /\ [][Next]_vars

AcceptDonation(s) == Accept(s, DonationInputs(IssuedTokens), MaxDonationRequests)

NextDonations ==
  \/ Tick
  \/ \E s \in Slots :
       \/ AcceptDonation(s)
       \/ VerifyFBToken(s)
       \/ VerifyAdmin(s)
       \/ PostDonationBuild(s)
       \/ PostDonationInsert(s)
       \/ GetDonations(s)
       \/ PatchDonation(s)
       \/ DeleteDonation(s)

SpecDonations == Init /\ [][NextDonations]_vars

AcceptPay(s) == Accept(s, PayInputs(Headers) \cup FundInputs(IssuedTokens), MaxPayRequests)

NextPay ==
  \/ Tick
  \/ \E s \in Slots :
       \/ AcceptPay(s)
       \/ VerifyFBToken(s)
       \/ VerifyAdmin(s)
       \/ GetFunds(s)
       \/ GetFundsTotal(s)
       \/ PostFunds(s)
       \/ CreatePaymentIntent(s)

SpecPay == Init /\ [][NextPay]_vars

AcceptUser(s) == Accept(s, UserInputs(GoodHeaders), MaxUserRequests)

NextUsers ==
  \/ Tick
  \/ \E s \in Slots :
       \/ AcceptUser(s)
       \/ VerifyFBToken(s)
       \/ VerifyAdmin(s)
       \/ PostUsersFind(s)
       \/ PostUsersUpdate(s)
       \/ GetUsers(s)
       \/ PutUser(s)
       \/ BlockUser(s)
       \/ UnblockUser(s)
       \/ SetRole(s)

SpecUsers == Init /\ [][NextUsers]_vars

(* ------------------------- claims on the user routes ------------------ *)
\* the step in which the handler of `route` in slot s performs its store
\* operation and answers
Handles(s, route) ==
  /\ reqs[s].route = route
  /\ reqs[s].pc \in {"handler", "update", "insert"}
  /\ reqs'[s].pc = "done"

\* C1: the role of an existing user record changes only in a step of
\* PATCH /users/role/:email for that email, whose handler runs only after the
\* admin guard has passed; PUT /users/:email and POST /users never change it.
C1_RoleChangesOnlyByRoleRoute ==
  [][\A e \in Emails :
       (usersColl[e].exists /\ usersColl'[e].role # usersColl[e].role)
         => \E s \in Slots : Handles(s, "SetRole") /\ reqs[s].email = e]_vars

\* C2: a POST /users for an email that has a record when the upsert is applied
\* changes neither the role nor the createdAt of that record, whatever the
\* order of the store operations of concurrent requests.
C2_RepeatedUpsertKeepsRoleAndCreatedAt ==
  [][\A s \in Slots :
       (Handles(s, "PostUsers") /\ reqs[s].pc = "update")
         => \A e \in Emails :
              (e = reqs[s].body.email /\ usersColl[e].exists)
                => /\ usersColl'[e].role = usersColl[e].role
                   /\ usersColl'[e].createdAt = usersColl[e].createdAt]_vars

\* C5: the status of an existing user record changes only in a step of
\* PATCH /users/block/:email or PATCH /users/unblock/:email for that email;
\* POST /users and PUT /users/:email never change it.
C5_StatusChangesOnlyByBlockRoutes ==
  [][\A e \in Emails :
       (usersColl[e].exists /\ usersColl'[e].status # usersColl[e].status)
         => \E s \in Slots :
              /\ Handles(s, "BlockUser") \/ Handles(s, "UnblockUser")
              /\ reqs[s].email = e]_vars

(* -------------------------- claims on the guards ---------------------- *)
\* the step slot s takes from position pc
Steps(s, pc) == reqs[s].pc = pc /\ reqs'[s] # reqs[s]

StoresUnchanged ==
  usersColl' = usersColl /\ donationsColl' = donationsColl /\ fundsColl' = fundsColl /\ inserted' = inserted

Answered(q, code) == q.pc = "done" /\ q.resp.status = code

\* the admin lookup of slot s: pure read; a caller with no record or a role
\* other than "admin" is answered 403 (or, when the lookup fails, not at all)
\* and never reaches the handler
AdminLookupRule(s) ==
  Steps(s, "verifyAdmin") =>
    /\ StoresUnchanged
    /\ NotAdmin(usersColl[reqs[s].decoded_email])
         => Answered(reqs'[s], 403) \/ reqs'[s].pc = "rejected"

\* the handler of an admin-gated route starts only out of an admin lookup that
\* found a record with role "admin"
AdminHandlerRule(s) ==
  (reqs'[s].pc = "handler" /\ reqs'[s].route \in AdminRoutes /\ reqs[s].pc # "handler")
    => /\ reqs[s].pc = "verifyAdmin"
       /\ usersColl[reqs[s].decoded_email].exists
       /\ usersColl[reqs[s].decoded_email].role = "admin"

\* an answered request does nothing more: its slot only ever takes a new request
FinishedRule(s) ==
  (reqs[s].pc = "done" /\ reqs'[s] # reqs[s]) => StoresUnchanged /\ accepted' = accepted + 1

\* C3 as stated: on the admin-gated routes a request with no token is
\* answered 401, a caller who is not an admin is answered 403 and the route's
\* store operation is not performed, and the admin lookup changes nothing.
C3_AdminGate_NoTokenIs401 ==
  [][\A s \in Slots :
       /\ AdminLookupRule(s)
       /\ AdminHandlerRule(s)
       /\ FinishedRule(s)
       /\ (Steps(s, "verifyFBToken") /\ reqs[s].route \in AdminRoutes
             /\ reqs[s].header = NoHeader)
            => Answered(reqs'[s], 401)]_vars

\* C3, amended: as above, but a request with no token is answered 401 only
\* when the identity provider is configured; when it is not, the request is
\* answered 500.
C3_AdminGate ==
  [][\A s \in Slots :
       /\ AdminLookupRule(s)
       /\ AdminHandlerRule(s)
       /\ FinishedRule(s)
       /\ (Steps(s, "verifyFBToken") /\ reqs[s].route \in AdminRoutes
             /\ reqs[s].header = NoHeader)
            => Answered(reqs'[s], IF firebaseInitialized THEN 401 ELSE 500)]_vars

\* a caller without the admin role was answered 403 on an admin-gated route
\* while the provider is configured
C3_Witness ==
  \E s \in Slots :
    /\ reqs[s].route = "DeleteDonation"
    /\ Answered(reqs[s], 403)
    /\ firebaseInitialized

\* the header is "Bearer <token>"
BearerForm(header) == Len(header) = 2 /\ header[1] = "Bearer"

\* the verifier let the request through: the verified email is attached and
\* the route's next guard or handler is next
LetThrough(s) ==
  /\ reqs'[s].pc = (IF reqs[s].route \in AdminRoutes THEN "verifyAdmin" ELSE "handler")
  /\ reqs'[s].decoded_email \in Emails
  /\ reqs'[s].decoded_email = TokenEmail(reqs[s].header[2])
  /\ reqs'[s] = [reqs[s] EXCEPT !.pc = reqs'[s].pc, !.decoded_email = reqs'[s].decoded_email]

EndsWith(q, code, message) ==
  q.pc = "done" /\ q.resp.status = code /\ q.resp.message = message

\* no request is past the identity verifier without a verified email
PastIdentityRule(s) ==
  (reqs'[s].route \in IdentityRoutes /\ reqs'[s].pc \in {"verifyAdmin", "handler", "update", "insert"})
    => reqs'[s].decoded_email \in Emails

\* C4 as stated: the verifier ends the request with 401 Unauthenticated when
\* the header is absent or malformed and with 401 InvalidCredential when the
\* provider rejects the token or is not configured; otherwise it attaches the
\* verified email and lets the request through.
C4_IdentityVerifier_Unconfigured401 ==
  [][\A s \in Slots :
       /\ PastIdentityRule(s)
       /\ Steps(s, "verifyFBToken") =>
            /\ StoresUnchanged
            /\ IF ~BearerForm(reqs[s].header)
               THEN EndsWith(reqs'[s], 401, "Unauthorized")
               ELSE IF ~firebaseInitialized
               THEN Answered(reqs'[s], 401)
               ELSE EndsWith(reqs'[s], 401, "Invalid token") \/ LetThrough(s)]_vars

\* C4, amended: when the provider is not configured the verifier ends every
\* request with 500, whatever its header; when it is configured it ends the
\* request with 401 "Unauthorized" for an absent or malformed header and with
\* 401 "Invalid token" for a rejected token, and otherwise attaches the
\* verified email and lets the request through.
C4_IdentityVerifier ==
  [][\A s \in Slots :
       /\ PastIdentityRule(s)
       /\ Steps(s, "verifyFBToken") =>
            /\ StoresUnchanged
            /\ IF ~firebaseInitialized
               THEN EndsWith(reqs'[s], 500, "Firebase not configured")
               ELSE IF ~BearerForm(reqs[s].header)
               THEN EndsWith(reqs'[s], 401, "Unauthorized")
               ELSE EndsWith(reqs'[s], 401, "Invalid token") \/ LetThrough(s)]_vars

\* every outcome of the verifier has happened: a request was let through to a
\* handler with its verified email while others were turned away
C4_Witness ==
  /\ firebaseInitialized
  /\ \E s \in Slots :
       /\ reqs[s].route = "PutUser" /\ reqs[s].pc = "handler"
       /\ reqs[s].decoded_email = "b@x"
  /\ \E s \in Slots : EndsWith(reqs[s], 401, "Invalid token")

(* ----------------------- claims on the donation routes --------------- *)
\* toHexString() of a store key
IdString(key) == <<HexDigits[(key \div 16) + 1], HexDigits[(key % 16) + 1]>>

\* the places of the donations whose _id reads as the path parameter id
WithId(id) == {i \in 1..MaxDonations : donationsColl[i].exists /\ IdString(donationsColl[i].id) = id}

\* the store operation of the step failed (what C10 is about)
StoreFailed(q) == q.pc = "rejected" /\ q.error = "MongoError"

\* C6: PATCH /donations/:id answers 400 and changes nothing when the body has
\* no status, answers 404 and changes nothing when no donation has that id,
\* and otherwise sets the status of exactly that donation.  (Steps in which
\* the store operation itself fails are left to C10.)
C6_PatchDonation ==
  [][\A s \in Slots :
       (Steps(s, "handler") /\ reqs[s].route = "PatchDonation" /\ ~StoreFailed(reqs'[s])) =>
         IF Falsy(reqs[s].body.status)
         THEN Answered(reqs'[s], 400) /\ donationsColl' = donationsColl
         ELSE IF WithId(reqs[s].id) = {}
         THEN Answered(reqs'[s], 404) /\ donationsColl' = donationsColl
         ELSE /\ Answered(reqs'[s], 200)
              /\ donationsColl' = [i \in 1..MaxDonations |->
                                 IF i \in WithId(reqs[s].id)
                                 THEN [donationsColl[i] EXCEPT !.status = reqs[s].body.status]
                                 ELSE donationsColl[i]]]_vars

\* C7 as stated: every donation in the collection has a status and a createdAt.
C7_EveryDonationHasStatusAndCreatedAt ==
  \A i \in 1..MaxDonations :
    donationsColl[i].exists => donationsColl[i].status # Absent /\ donationsColl[i].createdAt # <<>>

\* every donation in the collection has a createdAt read from the server's clock
EveryDonationHasServerCreatedAt ==
  \A i \in 1..MaxDonations :
    donationsColl[i].exists =>
      donationsColl[i].createdAt # <<>> /\ donationsColl[i].createdAt[1] \in 0..now

\* C7, amended: POST /donations inserts the caller-supplied fields as they
\* are, with createdAt set by the server whatever the caller sent; the record
\* has a status only when the caller supplied one (no default is applied).  So
\* every donation in the collection has a server-set createdAt.
C7_DonationInsert ==
  /\ []EveryDonationHasServerCreatedAt
  /\ [][\A s \in Slots :
          (Steps(s, "insert") /\ reqs[s].route = "PostDonation" /\ Answered(reqs'[s], 200)) =>
            /\ inserted' = inserted + 1
            /\ \A i \in 1..MaxDonations : i # inserted' => donationsColl'[i] = donationsColl[i]
            /\ donationsColl'[inserted'].exists
            /\ donationsColl'[inserted'].id = inserted'
            /\ donationsColl'[inserted'].status = reqs[s].body.status
            /\ donationsColl'[inserted'].note = reqs[s].body.note
            /\ donationsColl'[inserted'].createdAt # <<>>
            /\ donationsColl'[inserted'].createdAt[1] \in 0..now]_vars

\* a donation was inserted from a body with no status, and one from a body
\* with a status
C7_Witness ==
  \E i, j \in 1..MaxDonations :
    /\ donationsColl[i].exists /\ donationsColl[i].status = Absent
    /\ donationsColl[i].createdAt # <<>>
    /\ donationsColl[j].exists /\ donationsColl[j].status = "pending"

\* the documents of a list are in descending order of createdAt
SortedDescending(list) ==
  \A i, j \in 1..Len(list) : i < j => list[i].createdAt[1] >= list[j].createdAt[1]

\* list holds exactly the existing donations that satisfy Keep, each once
ExactlyThe(list, Keep(_)) ==
  /\ Len(list) = Cardinality({i \in 1..MaxDonations : donationsColl[i].exists /\ Keep(donationsColl[i])})
  /\ \A i \in 1..MaxDonations :
       (donationsColl[i].exists /\ Keep(donationsColl[i])) => \E k \in 1..Len(list) : list[k] = donationsColl[i]

KeepAll(d) == TRUE

\* C8 as stated: GET /donations answers with the donations in descending order
\* of createdAt, and with a status query parameter only those of that status.
C8_ListDonationsFiltered ==
  [][\A s \in Slots :
       (Steps(s, "handler") /\ reqs[s].route = "GetDonations" /\ Answered(reqs'[s], 200)) =>
         LET Wanted(d) == reqs[s].query = Absent \/ d.status = reqs[s].query
         IN  /\ SortedDescending(reqs'[s].resp.list)
             /\ ExactlyThe(reqs'[s].resp.list, Wanted)]_vars

\* C8, amended: GET /donations answers with all the donations in descending
\* order of createdAt, whether or not a status query parameter is given.
C8_ListDonations ==
  [][\A s \in Slots :
       (Steps(s, "handler") /\ reqs[s].route = "GetDonations" /\ Answered(reqs'[s], 200)) =>
         /\ SortedDescending(reqs'[s].resp.list)
         /\ ExactlyThe(reqs'[s].resp.list, KeepAll)]_vars

\* a request with a status query was answered with two donations that the
\* sort had to swap, one of them of another status
C8_Witness ==
  \E s \in Slots :
    /\ reqs[s].route = "GetDonations" /\ Answered(reqs[s], 200)
    /\ reqs[s].query = "pending"
    /\ Len(reqs[s].resp.list) = 2
    /\ reqs[s].resp.list[1].id > reqs[s].resp.list[2].id
    /\ reqs[s].resp.list[1].createdAt[1] > reqs[s].resp.list[2].createdAt[1]
    /\ \E k \in 1..2 : reqs[s].resp.list[k].status # "pending"

(* ------------------------ claim on the payment bridge ----------------- *)
\* the processor was called only by a finished POST /create-payment-intent,
\* once, and a 200 answer carries the secret the processor replied
OnlyPaymentsCall ==
  \A s \in Slots :
    reqs[s].stripe # <<>> =>
      /\ reqs[s].route = "CreatePaymentIntent" /\ reqs[s].pc = "done"
      /\ Len(reqs[s].stripe) = 1
      /\ reqs[s].resp.status \in {200, 500}
      /\ reqs[s].resp.status = 200 => reqs[s].resp.secret = reqs[s].stripe[1].reply

\* C9: POST /create-payment-intent answers 400 without calling the processor
\* when amount is absent or zero; otherwise it calls the processor once with
\* amount * 100 in a fixed currency and answers with the processor's client
\* secret unchanged; a request that failed identity verification never calls it.
C9_PaymentIntent ==
  /\ []OnlyPaymentsCall
  /\ [][\A s \in Slots :
          (Steps(s, "handler") /\ reqs[s].route = "CreatePaymentIntent") =>
            IF reqs[s].body.amount = <<>> \/ reqs[s].body.amount = <<0>>
            THEN Answered(reqs'[s], 400) /\ reqs'[s].stripe = <<>>
            ELSE /\ Len(reqs'[s].stripe) = 1
                 /\ reqs'[s].stripe[1].args =
                      [amount |-> reqs[s].body.amount[1] * 100, currency |-> "bdt"]
                 /\ \/ /\ Answered(reqs'[s], 200)
                       /\ reqs'[s].stripe[1].reply \in Secrets
                       /\ reqs'[s].resp.secret = reqs'[s].stripe[1].reply
                    \/ /\ Answered(reqs'[s], 500)
                       /\ reqs'[s].stripe[1].reply = "error"]_vars

\* amount 50 went to the processor as 5000 and its secret came back, while a
\* request without a valid token was turned away
C9_Witness ==
  /\ \E s \in Slots :
       /\ Answered(reqs[s], 200)
       /\ reqs[s].stripe = <<[args |-> [amount |-> 5000, currency |-> "bdt"], reply |-> "cs_2"]>>
       /\ reqs[s].resp.secret = "cs_2"
  /\ \E s \in Slots :
       /\ reqs[s].route = "CreatePaymentIntent" /\ Answered(reqs[s], 401)
       /\ reqs[s].stripe = <<>>

(* --------------------------- claim on all routes ---------------------- *)
\* C10: no guard and no handler ends without having answered its request:
\* a failure of a store operation is caught and answered with an error status.
C10_EveryRequestAnswered ==
  \A s \in Slots : reqs[s].pc # "rejected"

====
